---- MODULE Spec2Model ----
(***************************************************************************)
(* Model of fake_generator.py: the generation-and-injection pipeline       *)
(* generate_transactions = recurring generator, random generator, catalog  *)
(* pass (apply_irregularities), cumulative pass                            *)
(* (apply_cumulative_irregularity) and the final sort by date.             *)
(*                                                                         *)
(* Conventions.                                                            *)
(*  - A Python str is a sequence of one-character strings where its        *)
(*    characters matter (the Date field, compared and sliced as a string), *)
(*    and a TLA+ string where it is only carried around.                   *)
(*  - A transaction id is <<n>> for the n-th uuid4 of the run and << >>     *)
(*    for the empty string ''.                                             *)
(*  - Amounts are integers in cents; a float product that leaves the cent  *)
(*    grid (x * 0.99) is truncated to the cent.                            *)
(*  - A transaction [id, date, type, amount, account, description, vendor] *)
(*    is the Python list t[0..6] in that order.                            *)
(*  - A description (field 5) is a sequence of words, so that Python's     *)
(*    substring test "a in b" is a test for a contiguous subsequence.      *)
(***************************************************************************)
EXTENDS Integers, Sequences, FiniteSets, TLC

----------------------------------------------------------------------------
(* Strings of characters: the Date field                                    *)

Digits == <<"0", "1", "2", "3", "4", "5", "6", "7", "8", "9">>

IsDigit(c) == \E n \in 1..10 : Digits[n] = c

DigitVal(c) == (CHOOSE n \in 1..10 : Digits[n] = c) - 1

\* the code point of a character (the order Python compares str by)
Ord(c) ==
    IF c = " " THEN 32
    ELSE IF c = "-" THEN 45
    ELSE IF c = ":" THEN 58
    ELSE 48 + DigitVal(c)

RECURSIVE StrLess(_, _)
\* Python's a < b on str: lexicographic by code point, a proper prefix is less
StrLess(a, b) ==
    IF b = << >> THEN FALSE
    ELSE IF a = << >> THEN TRUE
    ELSE IF Head(a) = Head(b) THEN StrLess(Tail(a), Tail(b))
    ELSE Ord(Head(a)) < Ord(Head(b))

\* f"{n:02d}" for 0 <= n <= 99
Pad2(n) == <<Digits[(n \div 10) + 1], Digits[(n % 10) + 1]>>

\* %Y of strftime for a four-digit year
Pad4(n) == Pad2(n \div 100) \o Pad2(n % 100)

\* the number a string of digits denotes
Num2(s) == DigitVal(s[1]) * 10 + DigitVal(s[2])

Num4(s) == Num2(SubSeq(s, 1, 2)) * 100 + Num2(SubSeq(s, 3, 4))

\* Python's ' ' in s
HasSpace(s) == \E i \in 1..Len(s) : s[i] = " "

\* Python's s.split(' ')[0]
BeforeSpace(s) ==
    IF HasSpace(s)
    THEN SubSeq(s, 1, (CHOOSE i \in 1..Len(s) : s[i] = " " /\ \A j \in 1..(i - 1) : s[j] # " ") - 1)
    ELSE s

----------------------------------------------------------------------------
(* datetime and timedelta                                                   *)

IsLeap(y) == (y % 4 = 0 /\ y % 100 # 0) \/ y % 400 = 0

DaysInMonth(y, m) ==
    IF m = 2 THEN (IF IsLeap(y) THEN 29 ELSE 28)
    ELSE IF m \in {4, 6, 9, 11} THEN 30
    ELSE 31

DateTime(y, m, d) == [year |-> y, month |-> m, day |-> d, hour |-> 0, minute |-> 0]

\* dt + timedelta(days=1)
NextDay(dt) ==
    IF dt.day < DaysInMonth(dt.year, dt.month) THEN [dt EXCEPT !.day = dt.day + 1]
    ELSE IF dt.month < 12 THEN [dt EXCEPT !.day = 1, !.month = dt.month + 1]
    ELSE [dt EXCEPT !.day = 1, !.month = 1, !.year = dt.year + 1]

RECURSIVE AddDays(_, _)
\* dt + timedelta(days=n), n >= 0
AddDays(dt, n) == IF n = 0 THEN dt ELSE AddDays(NextDay(dt), n - 1)

\* dt + timedelta(minutes=n), n >= 0
AddMinutes(dt, n) ==
    LET total == dt.hour * 60 + dt.minute + n
        onday == [dt EXCEPT !.hour = (total % 1440) \div 60, !.minute = total % 60]
    IN  AddDays(onday, total \div 1440)

\* a <= b on datetimes at midnight
DateLeq(a, b) ==
    \/ a.year < b.year
    \/ a.year = b.year /\ a.month < b.month
    \/ a.year = b.year /\ a.month = b.month /\ a.day <= b.day

RECURSIVE DaysBetween(_, _)
\* (b - a).days for a <= b, both at midnight
DaysBetween(a, b) == IF a = b THEN 0 ELSE 1 + DaysBetween(NextDay(a), b)

\* dt.strftime('%Y-%m-%d')
StrfDate(dt) == Pad4(dt.year) \o <<"-">> \o Pad2(dt.month) \o <<"-">> \o Pad2(dt.day)

\* dt.strftime('%Y-%m-%d %H:%M')
StrfDateTime(dt) == StrfDate(dt) \o <<" ">> \o Pad2(dt.hour) \o <<":">> \o Pad2(dt.minute)

\* whether datetime.strptime(s, '%Y-%m-%d') returns; otherwise it raises
\* ValueError (unconverted data remains, or no match)
StrpOk(s) ==
    /\ Len(s) = 10
    /\ \A i \in {1, 2, 3, 4, 6, 7, 9, 10} : IsDigit(s[i])
    /\ s[5] = "-" /\ s[8] = "-"
    /\ Num2(SubSeq(s, 6, 7)) \in 1..12
    /\ Num2(SubSeq(s, 9, 10)) \in 1..DaysInMonth(Num4(SubSeq(s, 1, 4)), Num2(SubSeq(s, 6, 7)))

\* datetime.strptime(s, '%Y-%m-%d') where it returns
Strp(s) == DateTime(Num4(SubSeq(s, 1, 4)), Num2(SubSeq(s, 6, 7)), Num2(SubSeq(s, 9, 10)))

----------------------------------------------------------------------------
(* Configuration (the parsed config dict)                                   *)

\* config.get(key, default) and dict.get(key, default)
Get(d, key, default) == IF key \in DOMAIN d THEN d[key] ELSE default

\* the keys of irregularity_functions, in the order the dict lists them
RuleNames ==
    <<"high_amount", "frequency_change", "double_spend", "missing_id",
      "incorrect_date", "mismatched_description", "wrong_account",
      "personal_expense", "benford_violation", "subtle_skimming",
      "seasonal_anomaly", "round_number_bias">>

Rules == {RuleNames[i] : i \in DOMAIN RuleNames}

\* random.choice(['Purchase', 'Payment', 'Transfer', 'Deposit', 'Withdrawal'])
TransactionTypes == <<"Purchase", "Payment", "Transfer", "Deposit", "Withdrawal">>

\* only purchases count as expenses
IsExpense_PurchaseOnly(t) == t.type = "Purchase"

\* t[2] in ['Purchase', 'Payment']
IsExpense(t) == t.type \in {"Purchase", "Payment"}

\* random.choice(['Office Supplies', 'Equipment', 'Services', 'Miscellaneous'])
Categories == <<"Office Supplies", "Equipment", "Services", "Miscellaneous">>

\* recurring templates of the configurations explored
Rent == [day |-> 29, amount |-> 100000, description |-> <<"Rent">>, vendor |-> "Landlord"]

\* a template that never falls in the explored range, named like a category
Upkeep == [day |-> 15, amount |-> 20000, description |-> <<"Services">>, vendor |-> "Janitor"]

TemplateLists == {<< >>, <<Rent, Upkeep>>}

\* the number of random transactions asked for ranges over 0..MaxTransactions
MaxTransactions == 2

\* the irregularity kind of the configuration that names no catalog rule
UnknownKind == "made_up_rule"

\* the 'irregularities' dicts explored: each a dict kind -> settings
IrregularityDicts ==
    { [high_amount |-> [count |-> 0]],
      [double_spend |-> [count |-> 2],
       cumulative_irregularity |-> [enabled |-> TRUE, count |-> 2, threshold |-> <<1, 200>>]],
      [double_spend |-> [count |-> 1], missing_id |-> [count |-> 1]],
      [frequency_change |-> [count |-> 1], double_spend |-> [count |-> 1]],
      [incorrect_date |-> [count |-> 1], frequency_change |-> [count |-> 1]],
      [seasonal_anomaly |-> [count |-> 1], double_spend |-> [count |-> 1],
       frequency_change |-> [count |-> 0]],
      [subtle_skimming |-> [count |-> 1], double_spend |-> [count |-> 1],
       cumulative_irregularity |-> [enabled |-> TRUE, count |-> 1]],
      [mismatched_description |-> [count |-> 1], wrong_account |-> [count |-> 1],
       cumulative_irregularity |-> [enabled |-> FALSE, count |-> 2]],
      [personal_expense |-> [count |-> 1], benford_violation |-> [count |-> 1]],
      [round_number_bias |-> [count |-> 1], high_amount |-> [count |-> 1],
       cumulative_irregularity |-> [enabled |-> TRUE, count |-> 3, threshold |-> <<0, 1>>]],
      [made_up_rule |-> [count |-> 1], missing_id |-> [count |-> 1],
       high_amount |-> [count |-> 1]],
      [cumulative_irregularity |-> [enabled |-> TRUE, count |-> 0]],
      [cumulative_irregularity |-> [enabled |-> TRUE, count |-> 3, threshold |-> <<1, 50>>]] }

\* the configurations explored: a range over the end of a winter month
Configs ==
    { [start_date |-> DateTime(2024, 2, 29), end_date |-> DateTime(2024, 3, 1),
       recurring_transactions |-> rts, num_transactions |-> n,
       vendors |-> <<"Acme">>, irregularities |-> irr] :
        rts \in TemplateLists, n \in 0..MaxTransactions, irr \in IrregularityDicts }

\* irregularity_config.get(kind, {}).get('count', 0)
CountOf(cfg, kind) == Get(Get(Get(cfg, "irregularities", << >>), kind, << >>), "count", 0)

\* config.get('irregularities', {}).get('cumulative_irregularity', {})
CumulativeConfig(cfg) == Get(Get(cfg, "irregularities", << >>), "cumulative_irregularity", << >>)

\* the default of irregularity_config.get('threshold', 0.005), as a fraction
DefaultThreshold == <<1, 200>>

----------------------------------------------------------------------------
(* State                                                                    *)

VARIABLES
    config,                   \* the parsed configuration
    pc,                       \* where generate_transactions stands
    error,                    \* the exception that ended the run, "" if none
    current_date,             \* generate_recurring_transactions: the day of the while loop
    made,                     \* generate_random_transactions: iterations of the for loop done
    uuid_counter,             \* the number of uuid4 identifiers drawn so far
    transactions,             \* the transaction collection
    irregularities_to_apply,  \* apply_irregularities: the shuffled invocations
    pos,                      \* apply_irregularities: the next invocation (1-based)
    index,                    \* apply_irregularities: the last index drawn (1-based, 0 before)
    applied_irregularities,   \* apply_irregularities: its trail
    total_expenses,           \* apply_cumulative_irregularity: the expense base
    cumulative_irregular,     \* apply_cumulative_irregularity: the running total
    cumulative_applied,       \* apply_cumulative_irregularity: its trail
    walk,                     \* apply_cumulative_irregularity: the for loop's position (1-based)
    irregularities,           \* generate_transactions: the audit trail
    sorted_transactions,      \* generate_transactions: the collection it returns
    log,                      \* the lines printed
    baseline,                 \* the collection as the generators left it
    pre_cumulative            \* the collection as the catalog pass left it

vars ==
    <<config, pc, error, current_date, made, uuid_counter, transactions,
      irregularities_to_apply, pos, index, applied_irregularities, total_expenses,
      cumulative_irregular, cumulative_applied, walk, irregularities,
      sorted_transactions, log, baseline, pre_cumulative>>

InitWith(cfg) ==
    /\ config = cfg
    /\ pc = "recurring"
    /\ error = ""
    /\ current_date = cfg.start_date
    /\ made = 0
    /\ uuid_counter = 0
    /\ transactions = << >>
    /\ irregularities_to_apply = << >>
    /\ pos = 1
    /\ index = 0
    /\ applied_irregularities = << >>
    /\ total_expenses = 0
    /\ cumulative_irregular = 0
    /\ cumulative_applied = << >>
    /\ walk = 1
    /\ irregularities = << >>
    /\ sorted_transactions = << >>
    /\ log = << >>
    /\ baseline = << >>
    /\ pre_cumulative = << >>

Init == \E cfg \in Configs : InitWith(cfg)

----------------------------------------------------------------------------
(* Generators                                                               *)

\* generate_transaction_id(): the n-th uuid4 of the run
generate_transaction_id(n) == <<n>>

\* f"ACCT-{random.randint(1000, 9999)}"
Account(n) == <<"ACCT", n>>

\* round(x, 2) of x = n / d cents, n >= 0 (to the nearest cent)
RoundCents(n, d) == (2 * n + d) \div (2 * d)

\* rt['amount'] * random.uniform(0.95, 1.05): the factors drawn, in percent
JitterPercents == {95, 105}

\* random.randint(1000, 9999): the values drawn
AccountNumbers == {1234}

RECURSIVE RecurringOn(_, _, _, _)
\* the for loop of generate_recurring_transactions on one day: every list it
\* can append (one per choice of jitter), for templates k.. and n ids drawn
RecurringOn(rts, k, day, n) ==
    IF k > Len(rts) THEN {<< >>}
    ELSE IF day.day = rts[k].day
    THEN { <<[id |-> generate_transaction_id(n + 1),
              date |-> StrfDate(day),
              type |-> "Payment",
              amount |-> RoundCents(rts[k].amount * j, 100),
              account |-> Account(a),
              description |-> rts[k].description,
              vendor |-> rts[k].vendor]>> \o rest :
             j \in JitterPercents, a \in AccountNumbers,
             rest \in RecurringOn(rts, k + 1, day, n + 1) }
    ELSE RecurringOn(rts, k + 1, day, n)

\* generate_recurring_transactions: one iteration of its while loop
RecurringDay ==
    /\ pc = "recurring"
    /\ DateLeq(current_date, config.end_date)
    /\ \E new \in RecurringOn(Get(config, "recurring_transactions", << >>), 1, current_date,
                              uuid_counter) :
        /\ transactions' = transactions \o new
        /\ uuid_counter' = uuid_counter + Len(new)
    /\ current_date' = NextDay(current_date)
    /\ UNCHANGED <<config, pc, error, made, irregularities_to_apply, pos, index,
                   applied_irregularities, total_expenses, cumulative_irregular,
                   cumulative_applied, walk, irregularities, sorted_transactions, log,
                   baseline, pre_cumulative>>

\* generate_recurring_transactions returns; generate_random_transactions starts
RecurringReturn ==
    /\ pc = "recurring"
    /\ ~DateLeq(current_date, config.end_date)
    /\ pc' = "random"
    /\ UNCHANGED <<config, error, current_date, made, uuid_counter, transactions,
                   irregularities_to_apply, pos, index, applied_irregularities,
                   total_expenses, cumulative_irregular, cumulative_applied, walk,
                   irregularities, sorted_transactions, log, baseline, pre_cumulative>>

\* date_range = (config['end_date'] - config['start_date']).days
DateRange(cfg) == DaysBetween(cfg.start_date, cfg.end_date)

\* the division is done before the multiplication
NumRandom_DivideFirst(cfg) ==
    cfg.num_transactions
        - (Len(Get(cfg, "recurring_transactions", << >>)) * (DateRange(cfg) \div 30))

\* num_random = num_transactions - len(recurring_transactions) * date_range // 30
NumRandom(cfg) ==
    cfg.num_transactions
        - ((Len(Get(cfg, "recurring_transactions", << >>)) * DateRange(cfg)) \div 30)

\* vendors = config.get('vendors', []), ["Default Vendor"] if empty
Vendors(cfg) ==
    IF Get(cfg, "vendors", << >>) = << >> THEN <<"Default Vendor">> ELSE cfg.vendors

\* benford_amount(): float(f"{first_digit}.{rest_digits:06d}"), in millionths
benford_amount(first_digit, rest_digits) == first_digit * 1000000 + rest_digits

\* the draws of one iteration of generate_random_transactions explored: the
\* day offset, the type, the digits of benford_amount, the account number,
\* the vendor and the category
RandomDraws(cfg) ==
    LET range == DateRange(cfg)
        mid == IF range >= 14 THEN 14 ELSE range
    IN  { [offset |-> 0, type |-> 1, first_digit |-> 1, rest_digits |-> 0,
           account |-> 1234, vendor |-> 1, category |-> 3],
          [offset |-> mid, type |-> 2, first_digit |-> 1, rest_digits |-> 20004,
           account |-> 1000, vendor |-> 1, category |-> 1],
          [offset |-> range, type |-> 3, first_digit |-> 9, rest_digits |-> 999999,
           account |-> 9999, vendor |-> Len(Vendors(cfg)), category |-> 2],
          [offset |-> 0, type |-> 4, first_digit |-> 3, rest_digits |-> 141592,
           account |-> 1234, vendor |-> 1, category |-> 4],
          [offset |-> range, type |-> 5, first_digit |-> 2, rest_digits |-> 500000,
           account |-> 1234, vendor |-> 1, category |-> 4] }

\* only the first VariedDraws iterations explore every draw of RandomDraws;
\* the later ones take the first-listed kind of draw (a Purchase on the start date)
VariedDraws == 2

DrawsAt(cfg, k) ==
    IF k < VariedDraws THEN RandomDraws(cfg)
    ELSE {d \in RandomDraws(cfg) : d.type = 1}

\* the transaction one iteration of generate_random_transactions appends
RandomTransaction(cfg, d, n) ==
    [id |-> generate_transaction_id(n + 1),
     date |-> StrfDate(AddDays(cfg.start_date, d.offset)),
     type |-> TransactionTypes[d.type],
     amount |-> RoundCents(benford_amount(d.first_digit, d.rest_digits), 10),
     account |-> Account(d.account),
     description |-> <<TransactionTypes[d.type], "-", Categories[d.category]>>,
     vendor |-> Vendors(cfg)[d.vendor]]

\* generate_random_transactions: one iteration of its for loop
RandomOne ==
    /\ pc = "random"
    /\ made < NumRandom(config)
    /\ \E d \in DrawsAt(config, made) :
        transactions' = Append(transactions, RandomTransaction(config, d, uuid_counter))
    /\ uuid_counter' = uuid_counter + 1
    /\ made' = made + 1
    /\ UNCHANGED <<config, pc, error, current_date, irregularities_to_apply, pos, index,
                   applied_irregularities, total_expenses, cumulative_irregular,
                   cumulative_applied, walk, irregularities, sorted_transactions, log,
                   baseline, pre_cumulative>>

\* generate_random_transactions returns; apply_irregularities is called
RandomReturn ==
    /\ pc = "random"
    /\ made >= NumRandom(config)
    /\ pc' = "catalog"
    /\ baseline' = transactions
    /\ UNCHANGED <<config, error, current_date, made, uuid_counter, transactions,
                   irregularities_to_apply, pos, index, applied_irregularities,
                   total_expenses, cumulative_irregular, cumulative_applied, walk,
                   irregularities, sorted_transactions, log, pre_cumulative>>

----------------------------------------------------------------------------
(* The catalog rules: each takes the collection, the target index (1-based), *)
(* the configuration and what it draws from the random source, and gives    *)
(* the exception it raises ("" if none), the collection as it leaves it and *)
(* the description it returns.                                              *)

Returned(txs, desc) == [raised |-> "", transactions |-> txs, description |-> desc]

Raised(exc, txs) == [raised |-> exc, transactions |-> txs, description |-> [text |-> exc]]

\* Python's needle in hay, on sequences of words
Contains(hay, needle) ==
    \E k \in 0..(Len(hay) - Len(needle)) : SubSeq(hay, k + 1, k + Len(needle)) = needle

\* round(random.uniform(50000, 100000), 2): the values drawn
HighAmounts == {5000000, 10000000}

\* the amount is set in the wrong unit (a hundredth of the value drawn)
high_amount_hundredth(txs, i, cfg, rnd) ==
    Returned([txs EXCEPT ![i].amount = rnd \div 100],
             [text |-> "Amount increased", from |-> txs[i].amount, to |-> rnd \div 100])

high_amount(txs, i, cfg, rnd) ==
    Returned([txs EXCEPT ![i].amount = rnd],
             [text |-> "Amount increased", from |-> txs[i].amount, to |-> rnd])

\* any(rt['description'] in transactions[index][5] for rt in recurring_transactions)
IsRecurringDescription(cfg, desc) ==
    LET rts == Get(cfg, "recurring_transactions", << >>)
    IN  \E k \in 1..Len(rts) : Contains(desc, rts[k].description)

\* random.randint(1, 28): the days drawn
NewDays == {1, 28}

frequency_change(txs, i, cfg, rnd) ==
    IF IsRecurringDescription(cfg, txs[i].description)
    THEN LET new == SubSeq(txs[i].date, 1, 8) \o Pad2(rnd)
         IN  Returned([txs EXCEPT ![i].date = new],
                      [text |-> "Date changed", from |-> txs[i].date, to |-> new])
    ELSE Returned(txs, [text |-> "No change (not a recurring transaction)"])

\* random.randint(1, 60): the minutes drawn
Minutes == {1, 60}

\* rnd = [id: the uuid4 drawn, minutes: the offset drawn]
double_spend(txs, i, cfg, rnd) ==
    IF ~StrpOk(txs[i].date) THEN Raised("ValueError", txs)
    ELSE LET new == StrfDateTime(AddMinutes(Strp(txs[i].date), rnd.minutes))
             duplicate == [txs[i] EXCEPT !.id = rnd.id, !.date = new]
         IN  Returned(Append(txs, duplicate),
                      [text |-> "Transaction duplicated", id |-> rnd.id,
                       from |-> txs[i].date, to |-> new])

missing_id(txs, i, cfg, rnd) ==
    Returned([txs EXCEPT ![i].id = << >>],
             [text |-> "Transaction ID removed", original |-> txs[i].id])

\* random.randint(1, 30): the days drawn
FutureDays == {1, 30}

incorrect_date(txs, i, cfg, rnd) ==
    LET new == StrfDate(AddDays(cfg.end_date, rnd))
    IN  Returned([txs EXCEPT ![i].date = new],
                 [text |-> "Date changed to future date", from |-> txs[i].date, to |-> new])

mismatched_description(txs, i, cfg, rnd) ==
    LET new == IF txs[i].type = "Deposit" THEN <<"Withdrawal", "-", "Miscellaneous">>
               ELSE IF txs[i].type = "Withdrawal" THEN <<"Deposit", "-", "Miscellaneous">>
               ELSE txs[i].description
    IN  Returned([txs EXCEPT ![i].description = new],
                 [text |-> "Description changed", from |-> txs[i].description, to |-> new])

\* random.randint(100, 999): the values drawn
WrongNumbers == {100, 999}

wrong_account(txs, i, cfg, rnd) ==
    Returned([txs EXCEPT ![i].account = <<"WRONG", rnd>>],
             [text |-> "Account number changed", from |-> txs[i].account,
              to |-> <<"WRONG", rnd>>])

\* config.get('personal_vendors', ["Personal Vendor"])
PersonalVendors(cfg) == Get(cfg, "personal_vendors", <<"Personal Vendor">>)

\* config.get('personal_expense_descriptions', ["Personal Expense"])
PersonalDescriptions(cfg) ==
    Get(cfg, "personal_expense_descriptions", <<<<"Personal", "Expense">>>>)

\* round(random.uniform(100, 5000), 2): the values drawn
PersonalAmounts == {10000, 500000}

PersonalDraws(cfg) ==
    { [vendor |-> v, description |-> d, amount |-> a] :
        v \in 1..Len(PersonalVendors(cfg)), d \in 1..Len(PersonalDescriptions(cfg)),
        a \in PersonalAmounts }

personal_expense(txs, i, cfg, rnd) ==
    LET new == [txs[i] EXCEPT !.vendor = PersonalVendors(cfg)[rnd.vendor],
                              !.description = PersonalDescriptions(cfg)[rnd.description],
                              !.amount = rnd.amount]
    IN  Returned([txs EXCEPT ![i] = new],
                 [text |-> "Changed to personal expense", vendor |-> txs[i].vendor,
                  description |-> txs[i].description, from |-> txs[i].amount,
                  to |-> new.amount])

\* random.choice([5, 6]) and random.randint(0, 999999): the digits drawn
ViolationDraws ==
    {[first_digit |-> 5, rest_digits |-> 0], [first_digit |-> 6, rest_digits |-> 999990]}

\* float(f"{first_digit}.{rest_digits:06d}") * 1000, in cents
benford_violation(txs, i, cfg, rnd) ==
    LET new == benford_amount(rnd.first_digit, rnd.rest_digits) \div 10
    IN  Returned([txs EXCEPT ![i].amount = new],
                 [text |-> "Amount changed (violating Benford's Law)",
                  from |-> txs[i].amount, to |-> new])

\* x * 0.99, in cents
Skimmed(amount) == (amount * 99) \div 100

\* the range is not capped at ten: range(index, len(transactions))
SkimmedIndices_ToTheEnd(txs, i) ==
    {k \in 1..Len(txs) : i <= k}

\* range(index, min(index + 10, len(transactions))), 1-based
SkimmedIndices(txs, i) ==
    {k \in 1..Len(txs) : i <= k /\ k < i + 10}

subtle_skimming(txs, i, cfg, rnd) ==
    LET hit == SkimmedIndices(txs, i)
        new == [k \in 1..Len(txs) |->
                   IF k \in hit THEN [txs[k] EXCEPT !.amount = Skimmed(txs[k].amount)]
                   ELSE txs[k]]
    IN  Returned(new,
                 [text |-> "Subtle skimming applied", n |-> Cardinality(hit),
                  affected |-> [k \in hit |-> <<txs[k].id, txs[k].amount, new[k].amount>>]])

\* round(random.uniform(5000, 10000), 2): the values drawn
SeasonalAmounts == {500000, 1000000}

seasonal_anomaly(txs, i, cfg, rnd) ==
    LET date_str == BeforeSpace(txs[i].date)
    IN  IF ~StrpOk(date_str) THEN Raised("ValueError", txs)
        ELSE IF Strp(date_str).month \in {1, 2, 12}
        THEN Returned([txs EXCEPT ![i].description = <<"Summer", "Equipment", "Purchase">>,
                                  ![i].amount = rnd],
                      [text |-> "Seasonal anomaly", description |-> txs[i].description,
                       from |-> txs[i].amount, to |-> rnd])
        ELSE Returned(txs, [text |-> "No change (not in winter months)"])

\* round(x, -2) on an amount in cents: to the nearest hundred, ties to even
RoundHundreds(amount) ==
    LET q == amount \div 10000
        r == amount % 10000
    IN  IF r < 5000 THEN q * 10000
        ELSE IF r > 5000 THEN (q + 1) * 10000
        ELSE IF q % 2 = 0 THEN q * 10000
        ELSE (q + 1) * 10000

round_number_bias(txs, i, cfg, rnd) ==
    Returned([txs EXCEPT ![i].amount = RoundHundreds(txs[i].amount)],
             [text |-> "Amount rounded", from |-> txs[i].amount,
              to |-> RoundHundreds(txs[i].amount)])

\* a rule that draws nothing from the random source
NoDraw == {0}

----------------------------------------------------------------------------
(* apply_irregularities                                                     *)

RECURSIVE SumCounts(_, _)
\* sum(irregularity_config.get(irr, {}).get('count', 0) for irr in irregularity_functions)
SumCounts(cfg, k) ==
    IF k > Len(RuleNames) THEN 0 ELSE CountOf(cfg, RuleNames[k]) + SumCounts(cfg, k + 1)

\* total_irregularities, with the cumulative count added if enabled
TotalIrregularities(cfg) ==
    SumCounts(cfg, 1)
        + (IF Get(CumulativeConfig(cfg), "enabled", FALSE)
           THEN Get(CumulativeConfig(cfg), "count", 0) ELSE 0)

\* [irregularity_type] * count
Repeat(x, n) == [k \in 1..n |-> x]

\* every kind the configuration names is scheduled, a rule or not
Invocations_AllConfigured(cfg, k) ==
    LET kinds == DOMAIN Get(cfg, "irregularities", << >>) \ {"cumulative_irregularity"}
        Seq1(kind) == Repeat(kind, CountOf(cfg, kind))
        RECURSIVE Flat(_)
        Flat(ks) == IF ks = {} THEN << >>
                    ELSE LET x == CHOOSE x \in ks : TRUE IN Seq1(x) \o Flat(ks \ {x})
    IN  Flat(kinds)

RECURSIVE Invocations(_, _)
\* irregularities_to_apply before the shuffle: each rule's name count times
Invocations(cfg, k) ==
    IF k > Len(RuleNames) THEN << >>
    ELSE Repeat(RuleNames[k], CountOf(cfg, RuleNames[k])) \o Invocations(cfg, k + 1)

\* the number of entries of a sequence with the given value
Occurrences(x, seq) == Cardinality({k \in 1..Len(seq) : seq[k] = x})

\* random.shuffle(list): every order of the same entries
Shuffles(list) ==
    { s \in [1..Len(list) -> {list[k] : k \in 1..Len(list)}] :
        \A k \in 1..Len(list) : Occurrences(list[k], s) = Occurrences(list[k], list) }

\* apply_irregularities up to its dispatch loop
CatalogStart ==
    /\ pc = "catalog"
    /\ log' = Append(log, [text |-> "Total irregularities to apply",
                           n |-> TotalIrregularities(config)])
    /\ irregularities_to_apply' \in Shuffles(Invocations(config, 1))
    /\ applied_irregularities' = << >>
    /\ pos' = 1
    /\ pc' = "dispatch"
    /\ UNCHANGED <<config, error, current_date, made, uuid_counter, transactions, index,
                   total_expenses, cumulative_irregular, cumulative_applied, walk,
                   irregularities, sorted_transactions, baseline, pre_cumulative>>

\* index = random.randint(0, len(transactions) - 1) raises ValueError on an
\* empty range
DrawIndexRaises ==
    /\ pc = "dispatch"
    /\ pos <= Len(irregularities_to_apply)
    /\ Len(transactions) = 0
    /\ pc' = "fault"
    /\ error' = "ValueError"
    /\ UNCHANGED <<config, current_date, made, uuid_counter, transactions,
                   irregularities_to_apply, pos, index, applied_irregularities,
                   total_expenses, cumulative_irregular, cumulative_applied, walk,
                   irregularities, sorted_transactions, log, baseline, pre_cumulative>>

\* the entry is keyed by the id of the last transaction of the collection
AuditEntry_LastId(txs, i, kind, desc) ==
    [id |-> txs[Len(txs)].id, kind |-> kind, description |-> desc]

\* the audit entry of one invocation: (transactions[index][0], type, description)
AuditEntry(txs, i, kind, desc) == [id |-> txs[i].id, kind |-> kind, description |-> desc]

\* index = random.randint(0, len(transactions) - 1), 1-based
Indices == 1..Len(transactions)

\* one iteration of the dispatch loop for the rule named kind, given every
\* outcome [index, result] of drawing an index and running the rule on it:
\* one is taken, and the rule's entry is appended
Dispatch(kind, outcomes) ==
    /\ pc = "dispatch"
    /\ pos <= Len(irregularities_to_apply)
    /\ irregularities_to_apply[pos] = kind
    /\ Len(transactions) > 0
    /\ \E o \in outcomes :
        /\ index' = o.index
        /\ transactions' = o.result.transactions
        /\ IF o.result.raised # ""
           THEN /\ pc' = "fault"
                /\ error' = o.result.raised
                /\ UNCHANGED <<applied_irregularities, pos>>
           ELSE /\ applied_irregularities' =
                      Append(applied_irregularities,
                             AuditEntry(o.result.transactions, o.index, kind,
                                        o.result.description))
                /\ pos' = pos + 1
                /\ UNCHANGED <<pc, error>>
    /\ uuid_counter' = IF kind = "double_spend" THEN uuid_counter + 1 ELSE uuid_counter
    /\ UNCHANGED <<config, current_date, made, irregularities_to_apply, total_expenses,
                   cumulative_irregular, cumulative_applied, walk, irregularities,
                   sorted_transactions, log, baseline, pre_cumulative>>

Do_high_amount ==
    Dispatch("high_amount",
             { [index |-> i, result |-> high_amount(transactions, i, config, rnd)] :
                 i \in Indices, rnd \in HighAmounts })

Do_frequency_change ==
    Dispatch("frequency_change",
             { [index |-> i, result |-> frequency_change(transactions, i, config, rnd)] :
                 i \in Indices, rnd \in NewDays })

Do_double_spend ==
    Dispatch("double_spend",
             { [index |-> i,
                result |-> double_spend(transactions, i, config,
                                        [id |-> generate_transaction_id(uuid_counter + 1),
                                         minutes |-> m])] :
                 i \in Indices, m \in Minutes })

Do_missing_id ==
    Dispatch("missing_id",
             { [index |-> i, result |-> missing_id(transactions, i, config, rnd)] :
                 i \in Indices, rnd \in NoDraw })

Do_incorrect_date ==
    Dispatch("incorrect_date",
             { [index |-> i, result |-> incorrect_date(transactions, i, config, rnd)] :
                 i \in Indices, rnd \in FutureDays })

Do_mismatched_description ==
    Dispatch("mismatched_description",
             { [index |-> i, result |-> mismatched_description(transactions, i, config, rnd)] :
                 i \in Indices, rnd \in NoDraw })

Do_wrong_account ==
    Dispatch("wrong_account",
             { [index |-> i, result |-> wrong_account(transactions, i, config, rnd)] :
                 i \in Indices, rnd \in WrongNumbers })

Do_personal_expense ==
    Dispatch("personal_expense",
             { [index |-> i, result |-> personal_expense(transactions, i, config, rnd)] :
                 i \in Indices, rnd \in PersonalDraws(config) })

Do_benford_violation ==
    Dispatch("benford_violation",
             { [index |-> i, result |-> benford_violation(transactions, i, config, rnd)] :
                 i \in Indices, rnd \in ViolationDraws })

Do_subtle_skimming ==
    Dispatch("subtle_skimming",
             { [index |-> i, result |-> subtle_skimming(transactions, i, config, rnd)] :
                 i \in Indices, rnd \in NoDraw })

Do_seasonal_anomaly ==
    Dispatch("seasonal_anomaly",
             { [index |-> i, result |-> seasonal_anomaly(transactions, i, config, rnd)] :
                 i \in Indices, rnd \in SeasonalAmounts })

Do_round_number_bias ==
    Dispatch("round_number_bias",
             { [index |-> i, result |-> round_number_bias(transactions, i, config, rnd)] :
                 i \in Indices, rnd \in NoDraw })

\* apply_irregularities returns its trail; generate_transactions copies it
\* into irregularities and calls apply_cumulative_irregularity
CatalogReturn ==
    /\ pc = "dispatch"
    /\ pos > Len(irregularities_to_apply)
    /\ irregularities' = applied_irregularities
    /\ pre_cumulative' = transactions
    /\ pc' = "cumulative"
    /\ UNCHANGED <<config, error, current_date, made, uuid_counter, transactions,
                   irregularities_to_apply, pos, index, applied_irregularities,
                   total_expenses, cumulative_irregular, cumulative_applied, walk,
                   sorted_transactions, log, baseline>>

----------------------------------------------------------------------------
(* apply_cumulative_irregularity                                            *)

RECURSIVE SumExpenses(_, _)
\* sum(t[3] for t in transactions if t[2] in ['Purchase', 'Payment'])
SumExpenses(txs, k) ==
    IF k > Len(txs) THEN 0
    ELSE (IF IsExpense(txs[k]) THEN txs[k].amount ELSE 0) + SumExpenses(txs, k + 1)

\* irregularity_config.get('threshold', 0.005), as <<numerator, denominator>>
ThresholdFraction(cfg) == Get(CumulativeConfig(cfg), "threshold", DefaultThreshold)

\* cumulative_irregular > threshold, threshold = total_expenses * fraction
ExceedsThreshold(cum, total, fraction) == cum * fraction[2] > total * fraction[1]

\* round(random.uniform(1, 10), 2): the increments drawn, in cents
Increments == {100, 1000}

\* not enabled: apply_cumulative_irregularity returns the empty trail
CumulativeDisabled ==
    /\ pc = "cumulative"
    /\ ~Get(CumulativeConfig(config), "enabled", FALSE)
    /\ cumulative_applied' = << >>
    /\ pc' = "finish"
    /\ UNCHANGED <<config, error, current_date, made, uuid_counter, transactions,
                   irregularities_to_apply, pos, index, applied_irregularities,
                   total_expenses, cumulative_irregular, walk, irregularities,
                   sorted_transactions, log, baseline, pre_cumulative>>

\* enabled: the count, the expense base and the threshold are computed
CumulativeStart ==
    /\ pc = "cumulative"
    /\ Get(CumulativeConfig(config), "enabled", FALSE)
    /\ total_expenses' = SumExpenses(transactions, 1)
    /\ cumulative_irregular' = 0
    /\ cumulative_applied' = << >>
    /\ walk' = 1
    /\ pc' = "walk"
    /\ UNCHANGED <<config, error, current_date, made, uuid_counter, transactions,
                   irregularities_to_apply, pos, index, applied_irregularities,
                   irregularities, sorted_transactions, log, baseline, pre_cumulative>>

\* the for loop is over
WalkEnd ==
    /\ pc = "walk"
    /\ walk > Len(transactions)
    /\ pc' = "finish"
    /\ UNCHANGED <<config, error, current_date, made, uuid_counter, transactions,
                   irregularities_to_apply, pos, index, applied_irregularities,
                   total_expenses, cumulative_irregular, cumulative_applied, walk,
                   irregularities, sorted_transactions, log, baseline, pre_cumulative>>

\* if len(applied_irregularities) >= count: break
WalkCountReached ==
    /\ pc = "walk"
    /\ walk <= Len(transactions)
    /\ Len(cumulative_applied) >= Get(CumulativeConfig(config), "count", 0)
    /\ pc' = "finish"
    /\ UNCHANGED <<config, error, current_date, made, uuid_counter, transactions,
                   irregularities_to_apply, pos, index, applied_irregularities,
                   total_expenses, cumulative_irregular, cumulative_applied, walk,
                   irregularities, sorted_transactions, log, baseline, pre_cumulative>>

\* a transaction of another type is passed over
WalkSkip ==
    /\ pc = "walk"
    /\ walk <= Len(transactions)
    /\ Len(cumulative_applied) < Get(CumulativeConfig(config), "count", 0)
    /\ ~IsExpense(transactions[walk])
    /\ walk' = walk + 1
    /\ UNCHANGED <<config, pc, error, current_date, made, uuid_counter, transactions,
                   irregularities_to_apply, pos, index, applied_irregularities,
                   total_expenses, cumulative_irregular, cumulative_applied,
                   irregularities, sorted_transactions, log, baseline, pre_cumulative>>

\* the threshold is never looked at
WalkGoesOn_Always(cum, total, fraction) == TRUE

\* whether the walk goes on after the running total has become cum
WalkGoesOn(cum, total, fraction) == ~ExceedsThreshold(cum, total, fraction)

\* a Purchase or Payment is increased, the increment accumulated, an entry
\* emitted, and the loop left if the running total exceeds the threshold
WalkIncrease ==
    /\ pc = "walk"
    /\ walk <= Len(transactions)
    /\ Len(cumulative_applied) < Get(CumulativeConfig(config), "count", 0)
    /\ IsExpense(transactions[walk])
    /\ \E irregular_amount \in Increments :
        /\ transactions' =
              [transactions EXCEPT ![walk].amount = transactions[walk].amount + irregular_amount]
        /\ cumulative_irregular' = cumulative_irregular + irregular_amount
        /\ cumulative_applied' =
              Append(cumulative_applied,
                     [id |-> transactions[walk].id, kind |-> "cumulative_irregularity",
                      description |-> [text |-> "Amount increased by",
                                       amount |-> irregular_amount]])
        /\ pc' = IF WalkGoesOn(cumulative_irregular + irregular_amount, total_expenses,
                               ThresholdFraction(config))
                 THEN "walk" ELSE "finish"
    /\ walk' = walk + 1
    /\ UNCHANGED <<config, error, current_date, made, uuid_counter,
                   irregularities_to_apply, pos, index, applied_irregularities,
                   total_expenses, irregularities, sorted_transactions, log, baseline,
                   pre_cumulative>>

----------------------------------------------------------------------------
(* generate_transactions: the end                                           *)

\* the collection is returned in the order it has
SortedByDate_NotSorted(txs) == txs

RECURSIVE InsertByDate(_, _)
\* t put into the sorted s behind every entry whose Date is not greater
InsertByDate(s, t) ==
    IF s = << >> THEN <<t>>
    ELSE IF StrLess(t.date, s[Len(s)].date)
    THEN Append(InsertByDate(SubSeq(s, 1, Len(s) - 1), t), s[Len(s)])
    ELSE Append(s, t)

RECURSIVE SortPrefix(_, _)
\* the first k entries of txs, sorted
SortPrefix(txs, k) == IF k = 0 THEN << >> ELSE InsertByDate(SortPrefix(txs, k - 1), txs[k])

\* sorted(transactions, key=lambda x: x[1]): a stable sort by the Date string
SortedByDate(txs) == SortPrefix(txs, Len(txs))

\* the cumulative trail is appended, the counts printed, the sorted
\* collection and the trail returned
Finish ==
    /\ pc = "finish"
    /\ irregularities' = irregularities \o cumulative_applied
    /\ log' = log \o
          <<[text |-> "Double spend irregularities",
             n |-> Cardinality({k \in 1..Len(irregularities) :
                                   irregularities[k].kind = "double_spend"})],
            [text |-> "Other irregularities",
             n |-> Len(irregularities) + Len(cumulative_applied)
                     - Cardinality({k \in 1..Len(irregularities) :
                                       irregularities[k].kind = "double_spend"})],
            [text |-> "Cumulative irregularities", n |-> Len(cumulative_applied)]>>
    /\ sorted_transactions' = SortedByDate(transactions)
    /\ pc' = "done"
    /\ UNCHANGED <<config, error, current_date, made, uuid_counter, transactions,
                   irregularities_to_apply, pos, index, applied_irregularities,
                   total_expenses, cumulative_irregular, cumulative_applied, walk,
                   baseline, pre_cumulative>>

----------------------------------------------------------------------------
(* Specifications                                                           *)

Next ==
    \/ RecurringDay
    \/ RecurringReturn
    \/ RandomOne
    \/ RandomReturn
    \/ CatalogStart
    \/ DrawIndexRaises
    \/ Do_high_amount
    \/ Do_frequency_change
    \/ Do_double_spend
    \/ Do_missing_id
    \/ Do_incorrect_date
    \/ Do_mismatched_description
    \/ Do_wrong_account
    \/ Do_personal_expense
    \/ Do_benford_violation
    \/ Do_subtle_skimming
    \/ Do_seasonal_anomaly
    \/ Do_round_number_bias
    \/ CatalogReturn
    \/ CumulativeDisabled
    \/ CumulativeStart
    \/ WalkEnd
    \/ WalkCountReached
    \/ WalkSkip
    \/ WalkIncrease
    \/ Finish

Spec == Init /\ [][Next]_vars

\* the configuration of the concrete scenario: January 2024, one template
\* on the 15th, 50 transactions asked for, one high_amount, nothing else
ScenarioConfig ==
    [start_date |-> DateTime(2024, 1, 1), end_date |-> DateTime(2024, 1, 31),
     recurring_transactions |->
         <<[day |-> 15, amount |-> 100000, description |-> <<"Rent">>, vendor |-> "Landlord"]>>,
     num_transactions |-> 50,
     irregularities |->
         [high_amount |-> [count |-> 1], double_spend |-> [count |-> 0],
          cumulative_irregularity |-> [enabled |-> FALSE, count |-> 0]]]

InitScenario == InitWith(ScenarioConfig)

\* the steps a run of the scenario takes
NextScenario ==
    \/ RecurringDay
    \/ RecurringReturn
    \/ RandomOne
    \/ RandomReturn
    \/ CatalogStart
    \/ Do_high_amount
    \/ CatalogReturn
    \/ CumulativeDisabled
    \/ Finish

SpecScenario == InitScenario /\ [][NextScenario]_vars

\* the configurations of the generators alone: ranges of 0, 20 and 45 days
\* from 2024-01-01, with none, one or two templates
GeneratorEnds == {DateTime(2024, 1, 1), DateTime(2024, 1, 21), DateTime(2024, 2, 15)}

GeneratorConfigs ==
    { [start_date |-> DateTime(2024, 1, 1), end_date |-> e,
       recurring_transactions |-> rts, num_transactions |-> n,
       vendors |-> <<"Acme">>, irregularities |-> [high_amount |-> [count |-> 0]]] :
        e \in GeneratorEnds, rts \in {<< >>, <<Rent>>, <<Rent, Upkeep>>},
        n \in 0..MaxTransactions }

InitGenerators == \E cfg \in GeneratorConfigs : InitWith(cfg)

\* the steps of generate_recurring_transactions and generate_random_transactions
NextGenerators ==
    \/ RecurringDay
    \/ RecurringReturn
    \/ RandomOne
    \/ RandomReturn

SpecGenerators == InitGenerators /\ [][NextGenerators]_vars

\* the configurations of a collection longer than ten: eleven days with one
\* template on the 15th and eleven random transactions, skimmed once and
\* double-spent once, or skimmed twice
SkimmingConfigs ==
    { [start_date |-> DateTime(2024, 1, 10), end_date |-> DateTime(2024, 1, 20),
       recurring_transactions |-> <<Upkeep>>, num_transactions |-> 11,
       vendors |-> <<"Acme">>, irregularities |-> irr] :
        irr \in { [subtle_skimming |-> [count |-> 1], double_spend |-> [count |-> 1]],
                  [subtle_skimming |-> [count |-> 2]] } }

InitSkimming == \E cfg \in SkimmingConfigs : InitWith(cfg)

\* the steps of such a run up to the return of apply_irregularities
NextSkimming ==
    \/ RecurringDay
    \/ RecurringReturn
    \/ RandomOne
    \/ RandomReturn
    \/ CatalogStart
    \/ Do_double_spend
    \/ Do_subtle_skimming
    \/ CatalogReturn

SpecSkimming == InitSkimming /\ [][NextSkimming]_vars

----------------------------------------------------------------------------
(* Properties                                                               *)

\* apply_irregularities has ended, by returning or by raising
CatalogPassOver == pc \in {"cumulative", "walk", "finish", "done", "fault"}

\* apply_irregularities has returned its trail
CatalogPassReturned == pc \in {"cumulative", "walk", "finish", "done"}

\* the number of entries of a trail with the given irregularity kind
EntriesOfKind(kind, trail) == Cardinality({k \in 1..Len(trail) : trail[k].kind = kind})

\* C1: quota conformance of the catalog pass. From every non-empty starting
\* collection, whatever the shuffle and the indices drawn, the pass returns
\* a trail that holds exactly quota-many entries of every catalog rule (so
\* as many entries as the quotas sum to).
C1_QuotaConformance ==
    (CatalogPassOver /\ Len(baseline) > 0) =>
        /\ CatalogPassReturned
        /\ \A rule \in Rules :
              EntriesOfKind(rule, applied_irregularities) = CountOf(config, rule)
        /\ Len(applied_irregularities) = SumCounts(config, 1)

\* the double_spend invocations among the first n of the shuffled list
DoubleSpendsIn(n) ==
    Cardinality({k \in 1..n : irregularities_to_apply[k] = "double_spend"})

\* C2: every double_spend invocation completes, at whatever index (that of
\* an earlier duplicate included), appends exactly one transaction whose id
\* differs from the original's and removes none; so the collection is as
\* long as the baseline plus the double_spend invocations made, and after
\* the pass as long as the baseline plus the double_spend quota.
C2_DoubleSpendGrowsByOne ==
    /\ (pc = "fault" /\ Len(transactions) > 0) =>
          irregularities_to_apply[pos] # "double_spend"
    /\ (pc = "dispatch" /\ pos > 1 /\ irregularities_to_apply[pos - 1] = "double_spend") =>
          /\ Len(transactions) = Len(baseline) + DoubleSpendsIn(pos - 1)
          /\ transactions[Len(transactions)].id # transactions[index].id
    /\ CatalogPassReturned =>
          Len(pre_cumulative) = Len(baseline) + CountOf(config, "double_spend")

\* C3: on a collection of zero transactions both passes do nothing and do
\* not fault, whatever the quotas: each returns an empty trail and the
\* collection stays empty.
C3_EmptyCollectionNoOp ==
    (CatalogPassOver /\ Len(baseline) = 0) =>
        /\ pc # "fault"
        /\ applied_irregularities = << >>
        /\ cumulative_applied = << >>
        /\ transactions = << >>

\* the largest single increment, round(random.uniform(1, 10), 2), in cents
MaxIncrement == 1000

\* apply_cumulative_irregularity is walking, or has returned, with the rule enabled
CumulativeRan ==
    /\ pc \in {"walk", "finish", "done"}
    /\ Get(CumulativeConfig(config), "enabled", FALSE)

RECURSIVE SumAmounts(_, _)
\* the sum of the amounts of the entries k.. of a collection
SumAmounts(txs, k) == IF k > Len(txs) THEN 0 ELSE txs[k].amount + SumAmounts(txs, k + 1)

RECURSIVE ExpenseBase(_, _)
\* the sum of the amounts of the Purchase and Payment entries k.. of a collection
ExpenseBase(txs, k) ==
    IF k > Len(txs) THEN 0
    ELSE (IF txs[k].type \in {"Purchase", "Payment"} THEN txs[k].amount ELSE 0)
             + ExpenseBase(txs, k + 1)

\* x <= threshold + extra, threshold = (the expense base at the start of the
\* pass) * (the configured fraction), all in cents
WithinThresholdPlus(x, extra) ==
    LET fraction == Get(CumulativeConfig(config), "threshold", <<1, 200>>)
    IN  x * fraction[2] <= ExpenseBase(pre_cumulative, 1) * fraction[1] + extra * fraction[2]

\* C4: at every step of the cumulative walk the running total of the
\* increments (which is what the amounts have grown by) is at most the
\* threshold plus one largest increment, and while the walk goes on, so
\* whenever an increment is about to be added, it is at most the threshold.
C4_BoundedOvershoot ==
    CumulativeRan =>
        /\ cumulative_irregular = SumAmounts(transactions, 1) - SumAmounts(pre_cumulative, 1)
        /\ WithinThresholdPlus(cumulative_irregular, MaxIncrement)
        /\ pc = "walk" => WithinThresholdPlus(cumulative_irregular, 0)

\* C4 witness: the walk was left with the running total past the threshold,
\* after two increments
C4_Witness ==
    /\ CumulativeRan
    /\ pc = "finish"
    /\ Len(cumulative_applied) = 2
    /\ ~WithinThresholdPlus(cumulative_irregular, 0)

\* the Date string "2024-01-15"
Jan15 == <<"2", "0", "2", "4", "-", "0", "1", "-", "1", "5">>

\* the rows of the returned table that are Payments dated 2024-01-15
PaymentsOnJan15 ==
    {k \in 1..Len(sorted_transactions) :
        sorted_transactions[k].type = "Payment" /\ sorted_transactions[k].date = Jan15}

\* the rows of the returned table that the template produced
RentRows ==
    {k \in 1..Len(sorted_transactions) :
        /\ sorted_transactions[k].description = <<"Rent">>
        /\ sorted_transactions[k].vendor = "Landlord"}

\* the audit trail is one high_amount entry whose new amount is within
\* [50000, 100000] and is the amount of the row it names
OneHighAmountEntry ==
    /\ Len(irregularities) = 1
    /\ irregularities[1].kind = "high_amount"
    /\ irregularities[1].description.to >= 5000000
    /\ irregularities[1].description.to <= 10000000
    /\ \E k \in 1..Len(sorted_transactions) :
          /\ sorted_transactions[k].id = irregularities[1].id
          /\ sorted_transactions[k].amount = irregularities[1].description.to

\* C5 as stated: every run of the scenario returns exactly one Payment row
\* dated 2024-01-15, with an amount within [950, 1050], at least 50 rows,
\* and an audit trail of exactly one high_amount row with a new amount
\* within [50000, 100000].
C5_ScenarioAsStated ==
    pc = "done" =>
        /\ Cardinality(PaymentsOnJan15) = 1
        /\ \A k \in PaymentsOnJan15 :
              sorted_transactions[k].amount >= 95000 /\ sorted_transactions[k].amount <= 105000
        /\ Len(sorted_transactions) >= 50
        /\ OneHighAmountEntry

\* C5 amended: every run of the scenario returns exactly one row produced
\* by the template (description Rent, vendor Landlord), which is a Payment
\* dated 2024-01-15 with an amount within [950, 1050] unless the high_amount
\* invocation hit it, and then within [50000, 100000]; random rows may be
\* Payments dated 2024-01-15 too; there are exactly 50 rows, and the audit
\* trail is exactly one high_amount row with a new amount within
\* [50000, 100000].
C5_ScenarioAmended ==
    pc = "done" =>
        /\ Cardinality(RentRows) = 1
        /\ RentRows \subseteq PaymentsOnJan15
        /\ \A k \in RentRows :
              IF sorted_transactions[k].id = irregularities[1].id
              THEN sorted_transactions[k].amount = irregularities[1].description.to
              ELSE /\ sorted_transactions[k].amount >= 95000
                   /\ sorted_transactions[k].amount <= 105000
        /\ Len(sorted_transactions) = 50
        /\ OneHighAmountEntry

\* C5 witness: a run of the scenario has ended in which the high_amount
\* invocation hit the template's row and a random row is a Payment dated
\* 2024-01-15 as well
C5_Witness ==
    /\ pc = "done"
    /\ config = ScenarioConfig
    /\ Cardinality(PaymentsOnJan15) > 1
    /\ \E k \in RentRows : sorted_transactions[k].id = irregularities[1].id

\* a description that says nothing was changed
SaysNoChange(desc) ==
    desc.text \in {"No change (not a recurring transaction)", "No change (not in winter months)"}

\* the description of a transaction is that of no recurring template
EqualsNoTemplate(t) ==
    \A k \in 1..Len(Get(config, "recurring_transactions", << >>)) :
        t.description # config.recurring_transactions[k].description

\* the month of a transaction's Date is none of January, February, December
NotInWinter(t) == Num2(SubSeq(t.date, 6, 7)) \notin {1, 2, 12}

\* a step of the dispatch loop that completes an invocation of the rule
\* named kind
Completes(kind) ==
    /\ pc = "dispatch"
    /\ pos <= Len(irregularities_to_apply)
    /\ irregularities_to_apply[pos] = kind
    /\ pos' = pos + 1

\* C6: frequency_change on a transaction whose description equals no
\* template's description, and seasonal_anomaly on a transaction whose month
\* is not January, February or December, leave the whole collection
\* unchanged and return a "no change" description.
C6_NoOpRules ==
    [][ ( \/ Completes("frequency_change") /\ EqualsNoTemplate(transactions[index'])
          \/ Completes("seasonal_anomaly") /\ NotInWinter(transactions[index']) )
        => /\ transactions' = transactions
           /\ SaysNoChange(applied_irregularities'[pos].description) ]_vars

\* C7: the audit entry of every invocation carries the id the transaction
\* at the target index has once the rule has run: the empty id for
\* missing_id itself and for any rule run on an id-cleared transaction, and
\* for double_spend the id of the original, not that of the duplicate.
C7_AuditIdAsMutated ==
    (pc = "dispatch" /\ pos > 1) =>
        LET entry == applied_irregularities[pos - 1]
        IN  /\ Len(applied_irregularities) = pos - 1
            /\ entry.kind = irregularities_to_apply[pos - 1]
            /\ entry.id = transactions[index].id
            /\ entry.kind = "missing_id" => entry.id = << >>
            /\ entry.kind = "double_spend" =>
                  /\ index < Len(transactions)
                  /\ entry.id # transactions[Len(transactions)].id
                  /\ entry.description.id = transactions[Len(transactions)].id

\* C7 witness: a rule has run on a transaction whose id an earlier
\* missing_id invocation had cleared, and its entry has the empty id
C7_Witness ==
    /\ pc = "dispatch"
    /\ pos = 3
    /\ applied_irregularities[1].kind = "missing_id"
    /\ applied_irregularities[2].kind = "high_amount"
    /\ applied_irregularities[2].id = << >>
    /\ Len(transactions) > 1

\* the lines the run prints
KnownLines ==
    {"Total irregularities to apply", "Double spend irregularities",
     "Other irregularities", "Cumulative irregularities"}

\* the configuration names an irregularity kind that is no rule, and the
\* catalog pass has been entered
UnknownKindConfigured ==
    /\ CountOf(config, UnknownKind) > 0
    /\ pc \in {"dispatch", "cumulative", "walk", "finish", "done", "fault"}

C9_SortedByDate ==
    pc = "done" =>
        /\ \A k \in 1..(Len(sorted_transactions) - 1) :
              ~StrLess(sorted_transactions[k + 1].date, sorted_transactions[k].date)
        /\ Len(sorted_transactions) = Len(transactions)
        /\ \A k \in 1..Len(transactions) :
              Occurrences(transactions[k], sorted_transactions)
                  = Occurrences(transactions[k], transactions)

\* C9 witness: a run has ended whose collection held a duplicate with a
\* time of day in its Date and was not in order before the sort
C9_Witness ==
    /\ pc = "done"
    /\ sorted_transactions # transactions
    /\ \E k \in 1..Len(transactions) : Len(transactions[k].date) > 10

\* apply_cumulative_irregularity has returned
CumulativeReturned == pc \in {"finish", "done"}

\* the Purchase and Payment entries among the first k of the collection as
\* the catalog pass left it
ExpensesUpTo(k) ==
    Cardinality({j \in 1..k : pre_cumulative[j].type \in {"Purchase", "Payment"}})

RECURSIVE IncrementsUpTo(_)
\* the running total after the first j entries of the cumulative trail
IncrementsUpTo(j) ==
    IF j = 0 THEN 0 ELSE cumulative_applied[j].description.amount + IncrementsUpTo(j - 1)

\* C10: with the rule enabled and count c, the cumulative pass changes
\* exactly the first m Purchase/Payment transactions in collection order
\* (appended duplicates included), m being the least number with m = c, or
\* a running total past the threshold, or no Purchase/Payment left; it
\* emits m entries in walk order, adds to each amount the increment of its
\* entry (at least 1.00) and leaves every other transaction and field as it
\* was; with the rule not enabled it changes nothing and returns no entry.
C10_CumulativeWalk ==
    CumulativeReturned =>
        LET c == Get(CumulativeConfig(config), "count", 0)
            m == Len(cumulative_applied)
            n == Len(pre_cumulative)
        IN  IF ~Get(CumulativeConfig(config), "enabled", FALSE)
            THEN transactions = pre_cumulative /\ m = 0
            ELSE /\ Len(transactions) = n
                 /\ m <= c
                 /\ m <= ExpensesUpTo(n)
                 /\ \/ m = c
                    \/ ~WithinThresholdPlus(IncrementsUpTo(m), 0)
                    \/ m = ExpensesUpTo(n)
                 /\ \A j \in 0..(m - 1) : WithinThresholdPlus(IncrementsUpTo(j), 0)
                 /\ \A k \in 1..n :
                       IF pre_cumulative[k].type \in {"Purchase", "Payment"}
                            /\ ExpensesUpTo(k) <= m
                       THEN LET entry == cumulative_applied[ExpensesUpTo(k)]
                            IN  /\ entry.id = pre_cumulative[k].id
                                /\ entry.kind = "cumulative_irregularity"
                                /\ entry.description.amount >= 100
                                /\ transactions[k] =
                                      [pre_cumulative[k] EXCEPT
                                          !.amount = @ + entry.description.amount]
                       ELSE transactions[k] = pre_cumulative[k]

\* C10 witness: the pass has returned after a running total past the
\* threshold stopped it before the count was reached and before the
\* Purchase/Payment transactions ran out, one of them a duplicate appended
\* by double_spend
C10_Witness ==
    /\ CumulativeReturned
    /\ Get(CumulativeConfig(config), "enabled", FALSE)
    /\ Len(cumulative_applied) >= 1
    /\ Len(cumulative_applied) < Get(CumulativeConfig(config), "count", 0)
    /\ Len(cumulative_applied) < ExpensesUpTo(Len(pre_cumulative))
    /\ Len(pre_cumulative) > Len(baseline)

----------------------------------------------------------------------------
(* The count of generate_random_transactions                                *)

\* the transactions of the collection that generate_random_transactions made:
\* their description is "<type> - <category>"
RandomEmitted ==
    Cardinality({k \in 1..Len(transactions) :
                    /\ Len(transactions[k].description) = 3
                    /\ transactions[k].description[2] = "-"})

AtLeastZero(n) == IF n < 0 THEN 0 ELSE n

TemplateCount == Len(Get(config, "recurring_transactions", << >>))

\* C11 as stated: generate_random_transactions emits exactly max(0, N)
\* transactions, N = target_count - template_count * (date_range_days div 30),
\* and a negative N gives none, without a fault.
C11_RandomCountAsStated ==
    pc = "catalog" =>
        /\ error = ""
        /\ RandomEmitted
             = AtLeastZero(config.num_transactions
                             - TemplateCount * (DaysBetween(config.start_date, config.end_date) \div 30))

\* C11 as amended: generate_random_transactions emits exactly max(0, N)
\* transactions, N = target_count - ((template_count * date_range_days) div 30):
\* the product is divided, not the range; a negative N gives none, without a fault.
C11_RandomCount ==
    pc = "catalog" =>
        /\ error = ""
        /\ made = RandomEmitted
        /\ RandomEmitted
             = AtLeastZero(config.num_transactions
                             - ((TemplateCount * DaysBetween(config.start_date, config.end_date)) \div 30))

\* the generator has returned one transaction or more where the two readings
\* of the formula differ
C11_Witness ==
    /\ pc = "catalog"
    /\ RandomEmitted > 0
    /\ (TemplateCount * DaysBetween(config.start_date, config.end_date)) \div 30
         # TemplateCount * (DaysBetween(config.start_date, config.end_date) \div 30)

----------------------------------------------------------------------------
(* The frame of subtle_skimming                                             *)

\* the dispatch loop runs subtle_skimming in this step and the rule returns
SkimmingStep ==
    /\ pc = "dispatch"
    /\ pos <= Len(irregularities_to_apply)
    /\ irregularities_to_apply[pos] = "subtle_skimming"
    /\ pos' = pos + 1

\* the 1-based positions of the 0-based indices i .. min(i + 10, n) - 1, for
\* the 1-based target j = i + 1 and a collection of length n
TenFrom(j, n) == {k \in 1..n : j <= k /\ k <= j + 9}

\* b is a * 0.99, to the cent
IsNinetyNinePercent(a, b) == 100 * b <= 99 * a /\ 99 * a < 100 * b + 100

\* C12: a subtle_skimming invocation at target index i on a collection of
\* length n changes exactly the transactions at i .. min(i+10, n)-1 (ten,
\* fewer near the end, appended duplicates included): it multiplies their
\* amounts by 0.99 and leaves their other fields, every other transaction
\* and the length as they were; it is recorded as one audit entry keyed by
\* the id of the transaction at index i.
C12_SkimmingFrame ==
    [][SkimmingStep =>
        /\ Len(transactions') = Len(transactions)
        /\ index' \in 1..Len(transactions)
        /\ Cardinality(TenFrom(index', Len(transactions)))
             = (IF Len(transactions) - index' + 1 < 10
                THEN Len(transactions) - index' + 1 ELSE 10)
        /\ \A k \in 1..Len(transactions) :
              IF k \in TenFrom(index', Len(transactions))
              THEN /\ IsNinetyNinePercent(transactions[k].amount, transactions'[k].amount)
                   /\ transactions'[k].amount # transactions[k].amount
                   /\ transactions'[k]
                        = [transactions[k] EXCEPT !.amount = transactions'[k].amount]
              ELSE transactions'[k] = transactions[k]
        /\ Len(applied_irregularities') = Len(applied_irregularities) + 1
        /\ SubSeq(applied_irregularities', 1, Len(applied_irregularities))
             = applied_irregularities
        /\ applied_irregularities'[Len(applied_irregularities')].id = transactions[index'].id
        /\ applied_irregularities'[Len(applied_irregularities')].kind = "subtle_skimming"
    ]_vars

\* two invocations have run on a collection of twelve: one changed ten
\* transactions and left later ones alone, one near the end changed fewer
C12_Witness ==
    /\ Len(transactions) > 10
    /\ Len(applied_irregularities) = 2
    /\ \E a, b \in 1..2 :
        /\ applied_irregularities[a].kind = "subtle_skimming"
        /\ applied_irregularities[a].description.n = 10
        /\ applied_irregularities[b].kind = "subtle_skimming"
        /\ applied_irregularities[b].description.n < 10

====
